---- MODULE Spec2Model ----
(***************************************************************************)
(* A model of the paper-stats pipeline (src/mmaction2_stats.py):           *)
(*   - download_missing_pdf / _download : the fetch phase  (SpecFetch)     *)
(*   - main._valid                      : the classifier   (SpecValid)     *)
(*   - search_kwgroups_in_pdf           : the PDF matcher  (SpecMatch)     *)
(*   - main, lines 261-277              : relevance flag   (SpecRel)       *)
(* Python strings are TLA+ strings; `kw in text` is substring search.      *)
(***************************************************************************)
EXTENDS Integers, Sequences, FiniteSets, TLC

VARIABLES
    \* ---- fetch phase ----
    files,        \* regular files present under data/ (set of paths)
    dirs,         \* directories present (set of paths)
    tmps,         \* temporary download files wget left or is writing
    pkl,          \* content of failed_list.pkl (NoFile when absent)
    fpc,          \* "idle" | "running" | "raised"
    papers,       \* argument of the current/last download_missing_pdf call
    missing_list, \* line 83
    status,       \* per task: "queued" | "fetching" | "done"
    outcome,      \* per task: "none" | "ok" | "failed"  (what wget did)
    failed_list,  \* results of track_parallel_progress, in completion order
    startFiles,   \* files when the current/last run started
    startPkl,     \* failed_list.pkl when the current/last run started
    ran,          \* has a download_missing_pdf call returned
    \* ---- classifier ----
    paper,        \* the record handed to _valid
    vpc,          \* "start" | "done"
    relevant,     \* result of _valid
    \* ---- matcher ----
    doc,          \* the document behind pdf_path
    keyword_groups, \* argument keyword_groups
    case_sensitive, \* argument case_sensitive
    kwg,          \* keyword_groups after the case folding of lines 116-120
    result,       \* the result dict
    pageno,       \* number of pages the loop has taken from pdf.pages
    extracted,    \* page numbers whose extract_text() was called
    mpc,          \* "call" | "scan" | "returned"
    logged,       \* was 'fail to parse' printed
    parseFailed,  \* did open or extract_text raise PDFSyntaxError
    \* ---- relevance aggregation ----
    search_result, \* one element of search_results
    exported,      \* the dict appended to matched
    rpc            \* "start" | "done"

fetchVars == <<files, dirs, tmps, pkl, fpc, papers, missing_list, status,
               outcome, failed_list, startFiles, startPkl, ran>>
validVars == <<paper, vpc, relevant>>
matchVars == <<doc, keyword_groups, case_sensitive, kwg, result, pageno,
               extracted, mpc, logged, parseFailed>>
relVars   == <<search_result, exported, rpc>>
vars      == <<fetchVars, validVars, matchVars, relVars>>
notFetch  == <<validVars, matchVars, relVars>>
notValid  == <<fetchVars, matchVars, relVars>>
notMatch  == <<fetchVars, validVars, relVars>>
notRel    == <<fetchVars, validVars, matchVars>>

(***************************************************************************)
(* Python helpers                                                          *)
(***************************************************************************)
\* Python None
None == [tag |-> "None"]

\* failed_list.pkl does not exist
NoFile == <<[tag |-> "NoFile"]>>

\* `kw in text` for str
Contains(text, kw) ==
    \E i \in 1..(Len(text) - Len(kw) + 1) : SubSeq(text, i, i + Len(kw) - 1) = kw

Upper == <<"A","B","C","D","E","F","G","H","I","J","K","L","M",
           "N","O","P","Q","R","S","T","U","V","W","X","Y","Z">>
LowerOf == <<"a","b","c","d","e","f","g","h","i","j","k","l","m",
             "n","o","p","q","r","s","t","u","v","w","x","y","z">>

LowerChar(c) ==
    IF \E i \in 1..Len(Upper) : Upper[i] = c
    THEN LowerOf[CHOOSE i \in 1..Len(Upper) : Upper[i] = c]
    ELSE c

\* str.lower()
RECURSIVE Lower(_)
Lower(s) ==
    IF Len(s) = 0 THEN s
    ELSE LowerChar(SubSeq(s, 1, 1)) \o Lower(SubSeq(s, 2, Len(s)))

\* str.replace(old, new) for a one-character old
RECURSIVE Replace(_, _, _)
Replace(s, old, new) ==
    IF Len(s) = 0 THEN s
    ELSE (IF SubSeq(s, 1, 1) = old THEN new ELSE SubSeq(s, 1, 1))
         \o Replace(SubSeq(s, 2, Len(s)), old, new)

\* str.startswith(prefix)
StartsWith(s, prefix) ==
    Len(s) >= Len(prefix) /\ SubSeq(s, 1, Len(prefix)) = prefix

\* [x for x in seq if x in keep], order kept
RECURSIVE Filter(_, _)
Filter(seq, keep) ==
    IF seq = <<>> THEN <<>>
    ELSE (IF Head(seq) \in keep THEN <<Head(seq)>> ELSE <<>>) \o Filter(Tail(seq), keep)

Range(seq) == {seq[i] : i \in DOMAIN seq}

(***************************************************************************)
(* Each component has its own specification; the others stay parked.      *)
(***************************************************************************)
FetchParked ==
    /\ files = {} /\ dirs = {} /\ tmps = {} /\ pkl = NoFile /\ fpc = "parked"
    /\ papers = <<>> /\ missing_list = <<>> /\ status = <<>> /\ outcome = <<>>
    /\ failed_list = <<>> /\ startFiles = {} /\ startPkl = NoFile /\ ran = FALSE

ValidParked == paper = None /\ vpc = "parked" /\ relevant = FALSE

MatchParked ==
    /\ doc = None /\ keyword_groups = <<>> /\ case_sensitive = FALSE /\ kwg = <<>>
    /\ result = <<>> /\ pageno = 0 /\ extracted = {} /\ mpc = "parked"
    /\ logged = FALSE /\ parseFailed = FALSE

RelParked == search_result = <<>> /\ exported = <<>> /\ rpc = "parked"

(***************************************************************************)
(* Records and paths (paper_info, load_paper_info)                         *)
(***************************************************************************)
\* a str-typed Optional field holding None
NoUrl == "<None>"

\* osp.join('data', f'{conference}{year}', f'{title.replace("/", " ")}.pdf')
PdfPath(title, conference, year) ==
    "data/" \o conference \o year \o "/" \o Replace(title, "/", " ") \o ".pdf"

PaperInfo(title, conference, year, pdf_url) ==
    [tag |-> "paper", title |-> title, conference |-> conference, year |-> year,
     pdf_url |-> pdf_url, pdf_path |-> PdfPath(title, conference, year)]

\* The rows of the index. The first two collide on pdf_path; the third has
\* no pdf_url.
Index ==
    << PaperInfo("Video A/B", "CVPR", "2023", "http://cvf/1.pdf"),
       PaperInfo("Video A B", "CVPR", "2023", "http://cvf/2.pdf"),
       PaperInfo("Pose C", "ICCV", "2023", NoUrl) >>

\* osp.dirname
RECURSIVE Dirname(_)
Dirname(path) ==
    IF Len(path) = 0 THEN path
    ELSE IF SubSeq(path, Len(path), Len(path)) = "/"
         THEN SubSeq(path, 1, Len(path) - 1)
         ELSE Dirname(SubSeq(path, 1, Len(path) - 1))

\* a directory with all its ancestors
RECURSIVE Ancestors(_)
Ancestors(d) == IF Len(d) = 0 THEN {} ELSE {d} \cup Ancestors(Dirname(d))

AllPaths == {Index[i].pdf_path : i \in DOMAIN Index}
AllDirs  == UNION {Ancestors(Dirname(p)) : p \in AllPaths}
DirsOf(fs) == UNION {Ancestors(Dirname(p)) : p \in fs}

(***************************************************************************)
(* wget.download(url, path, bar=None), line 75                             *)
(***************************************************************************)
\* the temporary file wget writes: mkstemp(".tmp", prefix=path, dir=".")
TmpName(path) == path \o ".tmp"

\* filename_fix_existing: the numbered name used when the target exists
FixExisting(path) == SubSeq(path, 1, Len(path) - 4) \o " (1)" \o ".pdf"

\* where a completed download is moved to
WgetTarget(path, fs) == IF path \in fs THEN FixExisting(path) ELSE path

\* can wget.download succeed at all for this record, given the directories
WgetCanSucceed(p, ds) == p.pdf_url # NoUrl /\ Dirname(p.pdf_path) \in ds

(***************************************************************************)
(* _download, lines 69-78                                                  *)
(***************************************************************************)
\* a plausible bug: no try/except around wget.download
DownloadNoExcept(p, wgetRaised) ==
    [ret |-> None, exc |-> wgetRaised]

\* the value _download returns, and whether an exception leaves it
Download(p, wgetRaised) ==
    [ret |-> IF wgetRaised THEN p ELSE None, exc |-> FALSE]

(***************************************************************************)
(* download_missing_pdf, lines 81-97                                       *)
(***************************************************************************)
\* a plausible bug: every paper is fetched, present or not
MissingListAll(ps, fs) == ps

\* line 83-85
MissingList(ps, fs) ==
    Filter(ps, {p \in Range(ps) : p.pdf_path \notin fs})

\* a plausible bug: directories are left to the fetch tasks
MakeDirsNone(ps, ds) == [dirs |-> ds, exc |-> FALSE]

\* line 86: os.makedirs(osp.dirname(paper.pdf_path), exist_ok=True) for all
MakeDirs(ps, ds) ==
    [dirs |-> ds \cup UNION {Ancestors(Dirname(p.pdf_path)) : p \in Range(ps)},
     exc  |-> FALSE]

\* nproc=32, line 92
NProc == 32

\* lines 94-97: `if failed_list:` is true for any non-empty list
Persist(fl, old) == IF fl # <<>> THEN fl ELSE old

FetchInit ==
    /\ files \in SUBSET AllPaths
    /\ dirs \in {d \in SUBSET AllDirs :
                    DirsOf(files) \subseteq d /\ DirsOf(d) \subseteq d}
    /\ tmps = {}
    /\ pkl = NoFile
    /\ fpc = "idle"
    /\ papers = <<>>
    /\ missing_list = <<>>
    /\ status = <<>>
    /\ outcome = <<>>
    /\ failed_list = <<>>
    /\ startFiles = files
    /\ startPkl = pkl
    /\ ran = FALSE
    /\ ValidParked /\ MatchParked /\ RelParked

\* download_missing_pdf(papers) up to the start of the pool, lines 83-91
StartRun(sel) ==
    /\ fpc = "idle"
    /\ LET ps == Filter(Index, sel)
           ml == MissingList(ps, files)
           md == MakeDirs(ps, dirs)
       IN  /\ papers' = ps
           /\ missing_list' = ml
           /\ dirs' = md.dirs
           /\ fpc' = IF md.exc THEN "raised" ELSE "running"
           /\ status' = [i \in DOMAIN ml |-> "queued"]
           /\ outcome' = [i \in DOMAIN ml |-> "none"]
    /\ failed_list' = <<>>
    /\ startFiles' = files
    /\ startPkl' = pkl
    /\ UNCHANGED <<files, tmps, pkl, ran>>
    /\ UNCHANGED notFetch

\* Pool(nproc): at most nproc tasks are in a worker at a time
PoolHasSlot ==
    Cardinality({j \in DOMAIN status : status[j] = "fetching"}) < NProc

\* a worker takes task i and enters wget.download
TaskStart(i) ==
    /\ fpc = "running"
    /\ i \in DOMAIN status
    /\ status[i] = "queued"
    /\ PoolHasSlot
    /\ status' = [status EXCEPT ![i] = "fetching"]
    /\ tmps' = IF WgetCanSucceed(missing_list[i], dirs)
               THEN tmps \cup {TmpName(missing_list[i].pdf_path)}
               ELSE tmps
    /\ UNCHANGED <<files, dirs, pkl, fpc, papers, missing_list, outcome,
                   failed_list, startFiles, startPkl, ran>>
    /\ UNCHANGED notFetch

\* wget.download returns: the temporary file is moved to its target
TaskOk(i) ==
    /\ fpc = "running"
    /\ i \in DOMAIN status
    /\ status[i] = "fetching"
    /\ WgetCanSucceed(missing_list[i], dirs)
    /\ LET p == missing_list[i]
           r == Download(p, FALSE)
       IN  /\ files' = files \cup {WgetTarget(p.pdf_path, files)}
           /\ tmps' = tmps \ {TmpName(p.pdf_path)}
           /\ failed_list' = IF r.exc THEN failed_list ELSE Append(failed_list, r.ret)
           /\ fpc' = IF r.exc THEN "raised" ELSE fpc
    /\ status' = [status EXCEPT ![i] = "done"]
    /\ outcome' = [outcome EXCEPT ![i] = "ok"]
    /\ UNCHANGED <<dirs, pkl, papers, missing_list, startFiles, startPkl, ran>>
    /\ UNCHANGED notFetch

\* wget.download raises; the temporary file may or may not be left behind
TaskFail(i, leaveTmp) ==
    /\ fpc = "running"
    /\ i \in DOMAIN status
    /\ status[i] = "fetching"
    /\ LET p == missing_list[i]
           r == Download(p, TRUE)
       IN  /\ tmps' = IF leaveTmp THEN tmps ELSE tmps \ {TmpName(p.pdf_path)}
           /\ failed_list' = IF r.exc THEN failed_list ELSE Append(failed_list, r.ret)
           /\ fpc' = IF r.exc THEN "raised" ELSE fpc
    /\ status' = [status EXCEPT ![i] = "done"]
    /\ outcome' = [outcome EXCEPT ![i] = "failed"]
    /\ UNCHANGED <<files, dirs, pkl, papers, missing_list, startFiles, startPkl, ran>>
    /\ UNCHANGED notFetch

\* the pool has drained: lines 94-97
FinishRun ==
    /\ fpc = "running"
    /\ \A i \in DOMAIN status : status[i] = "done"
    /\ pkl' = Persist(failed_list, pkl)
    /\ fpc' = "idle"
    /\ ran' = TRUE
    /\ UNCHANGED <<files, dirs, tmps, papers, missing_list, status, outcome,
                   failed_list, startFiles, startPkl>>
    /\ UNCHANGED notFetch

FetchNext ==
    \/ \E sel \in SUBSET Range(Index) : StartRun(sel)
    \/ \E i \in DOMAIN Index : TaskStart(i)
    \/ \E i \in DOMAIN Index : TaskOk(i)
    \/ \E i \in DOMAIN Index, leaveTmp \in BOOLEAN : TaskFail(i, leaveTmp)
    \/ FinishRun

SpecFetch == FetchInit /\ [][FetchNext]_vars

(***************************************************************************)
(* Fetch phase: properties                                                 *)
(***************************************************************************)
Tasks == DOMAIN missing_list
\* a download_missing_pdf call has returned and no other has started
RunOver == fpc = "idle" /\ ran
\* the records held by failed_list.pkl
PklRecords ==
    IF pkl = NoFile THEN {} ELSE {pkl[i] : i \in DOMAIN pkl} \ {None}
\* the records whose fetch failed / succeeded in the most recent run
FailedLast == {missing_list[i] : i \in {j \in Tasks : outcome[j] = "failed"}}
OkLast     == {missing_list[i] : i \in {j \in Tasks : outcome[j] = "ok"}}
Started(i) == status[i] # "queued"

\* C1: after any sequence of runs, failed_list.pkl holds exactly the records
\* whose fetch failed in the most recent run: none that succeeded, all that
\* failed, and every attempted record not in it has its file.
C1_FailureSetIsLastRun ==
    (RunOver /\ papers # <<>>) =>
        /\ PklRecords = FailedLast
        /\ PklRecords \cap OkLast = {}
        /\ \A i \in Tasks :
              missing_list[i] \notin PklRecords => missing_list[i].pdf_path \in files

\* C2: a failing fetch never makes the run raise, never stops another task
\* from being taken and finishing (its success gives a file and a None
\* result), every task has a result when the run returns, and no partial
\* file sits at a failed task's destination.
C2_FailureIsolation ==
    /\ fpc # "raised"
    /\ \A i \in Tasks :
          /\ (fpc = "running" /\ status[i] = "queued") => PoolHasSlot
          /\ outcome[i] = "ok" => missing_list[i].pdf_path \in files
          /\ outcome[i] = "failed" => missing_list[i].pdf_path \notin tmps
    /\ Len(failed_list) = Cardinality({i \in Tasks : status[i] = "done"})
    /\ Cardinality({k \in DOMAIN failed_list : failed_list[k] = None})
          = Cardinality({i \in Tasks : outcome[i] = "ok"})
    /\ RunOver => \A i \in Tasks : status[i] = "done"

\* C2 witness: a run of three tasks returned, one failed, the other two
\* succeeded
C2_Witness ==
    /\ RunOver
    /\ Len(missing_list) = 3
    /\ Cardinality({i \in Tasks : outcome[i] = "failed"}) = 1
    /\ Cardinality({i \in Tasks : outcome[i] = "ok"}) = 2

\* C3: wget is entered only for records whose pdf_path was not a file when
\* the run started; when every destination existed at the start, no task
\* exists and neither the files nor failed_list.pkl change.
C3_FetchOnlyMissing ==
    /\ \A i \in Tasks :
          Started(i) => /\ missing_list[i] \in Range(papers)
                        /\ missing_list[i].pdf_path \notin startFiles
    /\ (\A p \in Range(papers) : p.pdf_path \in startFiles)
          => /\ Tasks = {}
             /\ files = startFiles
             /\ pkl = startPkl

\* C3 witness: a re-run over present files, after a run that left a pickle
C3_Witness ==
    /\ RunOver
    /\ Len(papers) >= 2
    /\ \A p \in Range(papers) : p.pdf_path \in startFiles
    /\ startPkl # NoFile

\* C9: once any task has started, the parent directory of every input
\* record's pdf_path exists; preparing never raises, and a run over
\* directories that all exist leaves the directories as they were.
C9_DirsBeforeFetch ==
    /\ [](/\ fpc # "raised"
          /\ (fpc = "running" \/ \E i \in Tasks : Started(i))
                => \A p \in Range(papers) : Dirname(p.pdf_path) \in dirs)
    /\ [][(fpc = "idle" /\ fpc' # "idle"
            /\ \A p \in Range(papers') : Dirname(p.pdf_path) \in dirs)
          => (fpc' = "running" /\ dirs' = dirs)]_vars

\* C9 witness: a task has started for a run whose input holds a record that
\* is not missing and one whose directory did not exist before the run
C9_Witness ==
    /\ \E i \in Tasks : Started(i)
    /\ \E p \in Range(papers) : p.pdf_path \in startFiles
    /\ \E p \in Range(papers) : Dirname(p.pdf_path) \notin DirsOf(startFiles)

(***************************************************************************)
(* main._valid, lines 160-221                                              *)
(***************************************************************************)
\* lines 162-188. Adjacent string literals with no comma between them are
\* one string: written here with \o where the source has no comma.
strong_pos_kws ==
    << "action detection",
       "action detector",
       "action recognition",
       "action localization",
       "video understanding",
       "video recognition",
       "video retrieval",
       "action quality assessment" \o "kinetics-400",
       "kinetics 400",
       "kinetics400",
       "k400" \o "kinetics-600",
       "kinetics 600",
       "k600" \o "kinetics600",
       "kinetics-700",
       "kinetics 700",
       "kinetics700",
       "something-something" \o "something something" \o "video representation",
       "video grounding" >>

\* lines 190-194
pos_kws == << "spatio-temporal", "spatial-temporal", "spatiotemporal" >>

\* lines 196-202
neg_kws ==
    << "diffraction", "action prediction", "interaction",
       "object detection", "object tracking", "distraction", "extraction",
       "action assessment", "motion prediction", "reinforcement learning",
       "segmentation", "point cloud", "abstraction",
       "action unit recognition" >>

\* an abstract that is not a str (a missing cell)
NoAbstract == "<NaN>"

\* lines 204-207
ValidText(p) ==
    IF p.abstract # NoAbstract
    THEN Lower(p.title) \o " " \o Lower(p.abstract)
    ELSE Lower(p.title)

\* `for kw in kws: if kw in text` finds a keyword
AnyIn(kws, text) == \E i \in DOMAIN kws : Contains(text, kws[i])

\* a plausible bug: the negative tier is tried before the strong-positive one
ValidNegFirst(p) ==
    LET text == ValidText(p)
    IN  IF AnyIn(neg_kws, text) THEN FALSE
        ELSE IF AnyIn(strong_pos_kws, text) THEN TRUE
        ELSE IF AnyIn(pos_kws, text) THEN TRUE
        ELSE FALSE

\* lines 209-221: the three loops in order, then the default
Valid(p) ==
    LET text == ValidText(p)
    IN  IF AnyIn(strong_pos_kws, text) THEN TRUE
        ELSE IF AnyIn(neg_kws, text) THEN FALSE
        ELSE IF AnyIn(pos_kws, text) THEN TRUE
        ELSE FALSE

Titles ==
    { "Spatio-temporal Action Detection via Interaction Modeling",
      "Action Quality Assessment in Sports",
      "Pretraining on Kinetics-400",
      "K400 Baselines",
      "Scaling to Kinetics-600",
      "K600 Results",
      "Kinetics600 Revisited",
      "Something-Something Reasoning",
      "Something Something V2",
      "Video Representation Learning",
      "Video Grounding with Point Cloud",
      "Spatiotemporal Segmentation",
      "Spatial-Temporal Graph Networks",
      "Image Classification",
      "Object Detection",
      "Kinetics 400 and ACTION RECOGNITION" }

Abstracts ==
    { NoAbstract,
      "We propose a new method.",
      "We model human-object Interaction.",
      "A spatio-temporal transformer.",
      "Feature extraction for Video Understanding.",
      "Evaluated on K400 and Something-Something." }

ValidInit ==
    /\ paper \in {[title |-> t, abstract |-> a] : t \in Titles, a \in Abstracts}
    /\ vpc = "start"
    /\ relevant = FALSE
    /\ FetchParked /\ MatchParked /\ RelParked

\* filter(_valid, papers) applies _valid to the record, line 223
Classify ==
    /\ vpc = "start"
    /\ relevant' = Valid(paper)
    /\ vpc' = "done"
    /\ UNCHANGED paper
    /\ UNCHANGED notValid

ValidNext == Classify

SpecValid == ValidInit /\ [][ValidNext]_vars

(***************************************************************************)
(* Classifier: properties                                                  *)
(***************************************************************************)
\* the lower-cased title+abstract text
ClaimText ==
    Lower(IF paper.abstract = NoAbstract THEN paper.title
          ELSE paper.title \o " " \o paper.abstract)
HitStrong == \E i \in DOMAIN strong_pos_kws : Contains(ClaimText, strong_pos_kws[i])
HitNeg    == \E i \in DOMAIN neg_kws : Contains(ClaimText, neg_kws[i])
HitWeak   == \E i \in DOMAIN pos_kws : Contains(ClaimText, pos_kws[i])

\* C4: _valid is true exactly when the text has a strong-positive keyword,
\* or has no negative keyword and has a weak-positive one; so strong+negative
\* is relevant, negative+weak without strong is not, and no tier is not.
C4_TierPriority ==
    vpc = "done" =>
        /\ relevant = (HitStrong \/ (~HitNeg /\ HitWeak))
        /\ (HitStrong /\ HitNeg) => relevant
        /\ (HitNeg /\ HitWeak /\ ~HitStrong) => ~relevant
        /\ (~HitStrong /\ ~HitNeg /\ ~HitWeak) => ~relevant

\* C4 witness: a classified record with a strong-positive and a negative hit
C4_Witness == vpc = "done" /\ HitStrong /\ HitNeg /\ HitWeak /\ relevant

\* the phrases written in the strong-positive list that C10 names
WrittenStrongPhrases ==
    { "action quality assessment", "kinetics-400", "k400", "kinetics-600",
      "k600", "kinetics600", "something-something", "something something",
      "video representation" }

\* C10: a record whose text contains one of the written strong-positive
\* phrases is classified relevant, with or without a negative keyword.
C10_WrittenPhrasesAreStrong ==
    vpc = "done" =>
        \A ph \in WrittenStrongPhrases : Contains(ClaimText, ph) => relevant

(***************************************************************************)
(* search_kwgroups_in_pdf, lines 100-145                                   *)
(***************************************************************************)
\* longest document drawn
MaxPages == 2

\* page.extract_text() raises PDFSyntaxError
PageErr == "<PDFSyntaxError>"

PageTexts ==
    { "Trained on Kinetics and UCF101 with MMAction2.",
      "We use the NTU dataset and SlowFast.",
      "kinetics ucf101 openmmlab mmaction2",
      "No benchmark is named here." }

PageSeqs == UNION {[1..n -> PageTexts \cup {PageErr}] : n \in 0..MaxPages}

\* a path: not a file; a file pdfplumber.open rejects; a file with pages
Docs ==
    {[isfile |-> FALSE, opens |-> FALSE, pages |-> <<>>],
     [isfile |-> TRUE,  opens |-> FALSE, pages |-> <<>>]}
    \cup {[isfile |-> TRUE, opens |-> TRUE, pages |-> ps] : ps \in PageSeqs}

\* keyword_groups of main, lines 226-237
MainGroups ==
    [k \in {"_pos0", "_neg0", "mmaction", "mmaction2", "openmmlab", "slowfast",
            "pyslowfast", "torchvideo", "paddlevideo"} |->
        CASE k = "_pos0" -> <<"kinetics", "something-something", "ntu", "ucf101",
                              "activitynet", "msrvtt">>
          [] k = "_neg0" -> <<>>
          [] k = "mmaction" -> <<"mmaction">>
          [] k = "mmaction2" -> <<"mmaction2", "mmaction">>
          [] k = "openmmlab" -> <<"openmmlab", "open mmlab", "open-mmlab">>
          [] k = "slowfast" -> <<"slowfast">>
          [] k = "pyslowfast" -> <<"pyslowfast", "facebookresearch/slowfast">>
          [] k = "torchvideo" -> <<"torchvideo", "torch video">>
          [] k = "paddlevideo" -> <<"paddlevideo", "paddle video">>]

\* the keyword_groups arguments drawn
GroupConfigs ==
    { MainGroups,
      [k \in {"data", "tool"} |->
          IF k = "data" THEN <<"Kinetics", "activitynet">> ELSE <<"MMAction2">>],
      [k \in {"data"} |-> <<"ucf101", "NTU">>],
      [k \in {"data", "none"} |-> IF k = "data" THEN <<"ntu">> ELSE <<>>],
      [k \in {} |-> <<>>] }

\* lines 116-120
FoldGroups(groups, cs) ==
    IF cs THEN groups
    ELSE [k \in DOMAIN groups |-> [i \in DOMAIN groups[k] |-> Lower(groups[k][i])]]

\* lines 131-132
FoldText(text, cs) == IF cs THEN text ELSE Lower(text)

\* a plausible bug: the loop never leaves early
AllHitNever(res) == FALSE

\* line 127: all(result.values())
AllHit(res) == \A k \in DOMAIN res : res[k]

\* a plausible bug: each page decides each group anew
MatchPagePerPage(res, groups, text) ==
    [k \in DOMAIN res |-> \E i \in DOMAIN groups[k] : Contains(text, groups[k][i])]

\* lines 134-141: groups already true are skipped, the others take the
\* first keyword found in the page text
MatchPage(res, groups, text) ==
    [k \in DOMAIN res |->
        IF res[k] THEN TRUE
        ELSE \E i \in DOMAIN groups[k] : Contains(text, groups[k][i])]

MatchInit ==
    /\ doc \in Docs
    /\ keyword_groups \in GroupConfigs
    /\ case_sensitive \in BOOLEAN
    /\ kwg = <<>>
    /\ result = <<>>
    /\ pageno = 0
    /\ extracted = {}
    /\ mpc = "call"
    /\ logged = FALSE
    /\ parseFailed = FALSE
    /\ FetchParked /\ ValidParked /\ RelParked

\* lines 116-125: fold the keywords, clear the result, open the document
Open ==
    /\ mpc = "call"
    /\ kwg' = FoldGroups(keyword_groups, case_sensitive)
    /\ result' = [k \in DOMAIN keyword_groups |-> FALSE]
    /\ IF ~doc.isfile
       THEN mpc' = "returned" /\ UNCHANGED <<logged, parseFailed>>
       ELSE IF ~doc.opens
       THEN mpc' = "returned" /\ logged' = TRUE /\ parseFailed' = TRUE
       ELSE mpc' = "scan" /\ UNCHANGED <<logged, parseFailed>>
    /\ UNCHANGED <<doc, keyword_groups, case_sensitive, pageno, extracted>>
    /\ UNCHANGED notMatch

\* one iteration of the page loop, lines 126-141 (and 142-143 on an error)
PageStep ==
    /\ mpc = "scan"
    /\ pageno < Len(doc.pages)
    /\ IF AllHit(result)
       THEN /\ mpc' = "returned"
            /\ UNCHANGED <<result, pageno, extracted, logged, parseFailed>>
       ELSE /\ extracted' = extracted \cup {pageno + 1}
            /\ pageno' = pageno + 1
            /\ IF doc.pages[pageno + 1] = PageErr
               THEN /\ mpc' = "returned"
                    /\ logged' = TRUE
                    /\ parseFailed' = TRUE
                    /\ UNCHANGED result
               ELSE /\ result' = MatchPage(result, kwg,
                                    FoldText(doc.pages[pageno + 1], case_sensitive))
                    /\ UNCHANGED <<mpc, logged, parseFailed>>
    /\ UNCHANGED <<doc, keyword_groups, case_sensitive, kwg>>
    /\ UNCHANGED notMatch

\* pdf.pages is exhausted: line 145
EndScan ==
    /\ mpc = "scan"
    /\ pageno = Len(doc.pages)
    /\ mpc' = "returned"
    /\ UNCHANGED <<doc, keyword_groups, case_sensitive, kwg, result, pageno,
                   extracted, logged, parseFailed>>
    /\ UNCHANGED notMatch

MatchNext == Open \/ PageStep \/ EndScan

SpecMatch == MatchInit /\ [][MatchNext]_vars

(***************************************************************************)
(* Matcher: properties                                                     *)
(***************************************************************************)
Groups == DOMAIN keyword_groups
\* the pages whose text the scan has read
Inspected == {n \in extracted : doc.pages[n] # PageErr}
\* some keyword of group g is a substring of page n, letter case folded on
\* both sides unless case_sensitive
HitOn(g, n) ==
    /\ doc.pages[n] # PageErr
    /\ \E i \in DOMAIN keyword_groups[g] :
          IF case_sensitive
          THEN Contains(doc.pages[n], keyword_groups[g][i])
          ELSE Contains(Lower(doc.pages[n]), Lower(keyword_groups[g][i]))
\* every group has a hit on one of the pages 1..n
SatisfiedBy(n) == \A g \in Groups : \E m \in 1..n : HitOn(g, m)

\* C5: no page after the first page at which every group is true has its
\* text extracted; with every group satisfied by page 1, pages 2..N are
\* never read.
C5_EarlyTermination ==
    /\ \A n \in extracted : \A m \in 1..(n - 1) : ~SatisfiedBy(m)
    /\ (Len(doc.pages) >= 1 /\ SatisfiedBy(1)) => extracted \subseteq {1}

\* C5 witness: a returned scan of a longer document that page 1 satisfied
C5_Witness ==
    /\ mpc = "returned"
    /\ Groups # {}
    /\ Len(doc.pages) >= 2
    /\ SatisfiedBy(1)
    /\ extracted = {1}

\* C6: a group's result never goes from true to false, and the returned
\* value of each group is the OR over the inspected pages of 'a keyword of
\* the group is a substring of the page text'.
C6_Monotone ==
    /\ [][\A g \in DOMAIN result : result[g] => result'[g]]_vars
    /\ [](mpc = "returned" =>
            /\ DOMAIN result = Groups
            /\ \A g \in Groups : result[g] = (\E n \in Inspected : HitOn(g, n)))

\* C6 witness: a group hit on page 1 and not on the inspected page 2 is true
\* in the returned mapping
C6_Witness ==
    /\ mpc = "returned"
    /\ {1, 2} \subseteq Inspected
    /\ \E g \in Groups : HitOn(g, 1) /\ ~HitOn(g, 2) /\ result[g]

\* C7: when opening the document or reading any page fails to parse, the
\* returned mapping has every group false and the failure is logged.
C7_UnparseableAllFalse ==
    (mpc = "returned" /\ parseFailed) =>
        /\ logged
        /\ \A g \in Groups : ~result[g]

(***************************************************************************)
(* main, lines 261-277: the document-relevance flag                        *)
(***************************************************************************)
\* int(v) of a bool; a Python bool is the int 0 or 1
PyInt(b) == IF b THEN 1 ELSE 0

\* ~x on a Python int
PyInvert(x) == (0 - x) - 1

\* x & y on Python ints (two's complement of unbounded width)
RECURSIVE PyAnd(_, _)
PyAnd(x, y) ==
    IF x = 0 \/ y = 0 THEN 0
    ELSE IF x = (0 - 1) THEN y
    ELSE IF y = (0 - 1) THEN x
    ELSE 2 * PyAnd(x \div 2, y \div 2) + (x % 2) * (y % 2)

\* x | y on Python ints
RECURSIVE PyOr(_, _)
PyOr(x, y) ==
    IF x = 0 THEN y
    ELSE IF y = 0 THEN x
    ELSE IF x = (0 - 1) \/ y = (0 - 1) THEN 0 - 1
    ELSE 2 * PyOr(x \div 2, y \div 2)
         + (IF x % 2 = 1 \/ y % 2 = 1 THEN 1 ELSE 0)

\* the keys in dict order that start with a prefix, lines 263-264
KeysWith(order, prefix) == Filter(order, {k \in Range(order) : StartsWith(k, prefix)})

\* lines 267-268: relevant |= result.pop(key), over pos_keys
RECURSIVE OrAll(_, _, _)
OrAll(acc, keys, res) ==
    IF keys = <<>> THEN acc
    ELSE OrAll(PyOr(acc, PyInt(res[Head(keys)])), Tail(keys), res)

\* lines 270-271: relevant &= (~result.pop(key)), over neg_keys
RECURSIVE AndNotAll(_, _, _)
AndNotAll(acc, keys, res) ==
    IF keys = <<>> THEN acc
    ELSE AndNotAll(PyAnd(acc, PyInvert(PyInt(res[Head(keys)]))), Tail(keys), res)

\* a plausible bug: the negative groups are and-ed in without the negation
RECURSIVE AndAll(_, _, _)
AndAll(acc, keys, res) ==
    IF keys = <<>> THEN acc
    ELSE AndAll(PyAnd(acc, PyInt(res[Head(keys)])), Tail(keys), res)

RelevantNoInvert(order, res) ==
    AndAll(OrAll(0, KeysWith(order, "_pos"), res), KeysWith(order, "_neg"), res)

\* lines 266-271: relevant starts False
Relevant(order, res) ==
    AndNotAll(OrAll(0, KeysWith(order, "_pos"), res), KeysWith(order, "_neg"), res)

\* lines 263-274: the popped keys are gone, 'relevant' is added, all int
Export(order, res) ==
    LET popped == Range(KeysWith(order, "_pos")) \cup Range(KeysWith(order, "_neg"))
        rel == Relevant(order, res)
    IN  [k \in (DOMAIN res \ popped) \cup {"relevant"} |->
            IF k = "relevant" THEN rel ELSE PyInt(res[k])]

\* the key orders of the mappings drawn: main's keyword_groups, and one with
\* two positive-signal and two negative-signal groups
KeyOrders ==
    { <<"_pos0", "_neg0", "mmaction", "mmaction2", "openmmlab", "slowfast",
        "pyslowfast", "torchvideo", "paddlevideo">>,
      <<"_pos0", "_neg0", "mmaction", "_pos1", "_neg1", "slowfast">> }

RelInit ==
    /\ \E order \in KeyOrders :
          search_result \in {[order |-> order, map |-> m] : m \in [Range(order) -> BOOLEAN]}
    /\ exported = <<>>
    /\ rpc = "start"
    /\ FetchParked /\ ValidParked /\ MatchParked

\* one pass of the loop over zip(papers, search_results), lines 262-277
Aggregate ==
    /\ rpc = "start"
    /\ exported' = Export(search_result.order, search_result.map)
    /\ rpc' = "done"
    /\ UNCHANGED search_result
    /\ UNCHANGED notRel

RelNext == Aggregate

SpecRel == RelInit /\ [][RelNext]_vars

(***************************************************************************)
(* Relevance flag: properties                                              *)
(***************************************************************************)
PosGroups == {k \in DOMAIN search_result.map : StartsWith(k, "_pos")}
NegGroups == {k \in DOMAIN search_result.map : StartsWith(k, "_neg")}
AnyPos == \E k \in PosGroups : search_result.map[k]
AnyNeg == \E k \in NegGroups : search_result.map[k]

\* C8: 'relevant' is 1 exactly when some '_pos' group is true and no '_neg'
\* group is true, and 0 otherwise; the '_pos'/'_neg' groups are not
\* exported and every other group keeps its value.
C8_RelevantFlag ==
    rpc = "done" =>
        /\ exported["relevant"] = (IF AnyPos /\ ~AnyNeg THEN 1 ELSE 0)
        /\ DOMAIN exported =
              (DOMAIN search_result.map \ (PosGroups \cup NegGroups)) \cup {"relevant"}
        /\ \A k \in DOMAIN search_result.map \ (PosGroups \cup NegGroups) :
              exported[k] = (IF search_result.map[k] THEN 1 ELSE 0)

\* C8 witness: an aggregated mapping with a positive hit and a negative hit
C8_Witness ==
    /\ rpc = "done"
    /\ AnyPos /\ AnyNeg
    /\ Cardinality(NegGroups) = 2
    /\ exported["relevant"] = 0

====
